---- MODULE Spec2Model ----
(***************************************************************************)
(* A model of src/src/main.rs: a thread pool of workers that take jobs     *)
(* from one mpsc channel behind a mutex, an accept loop that submits one   *)
(* job per connection, and the hand-written HTTP request parser, router,   *)
(* handlers and response of handle_connection.                             *)
(*                                                                         *)
(* Text is modelled as sequences of bytes, a byte being a one-character    *)
(* string; "xC3" and "xA9" are the two bytes of a two-byte UTF-8           *)
(* character.  An Option is a sequence of length 0 (None) or 1 (Some).     *)
(***************************************************************************)
EXTENDS Integers, Sequences, FiniteSets, TLC

(***************************************************************************)
(* Bounds of the model.                                                    *)
(***************************************************************************)
\* Number of workers given to ThreadPool::new (main passes 10).
PoolSize == 2
\* Connections that arrive in the pool specification.
MaxConns == 3
\* Connections that arrive in the request specification.
MaxHttpConns == 2
\* Failed accepts the acceptor sees.
MaxAcceptErrors == 1

(***************************************************************************)
(* Program constants.                                                      *)
(***************************************************************************)
\* let mut buffer = [0; 256];
BufferSize == 256

(***************************************************************************)
(* Byte strings and the str methods the program calls.                     *)
(***************************************************************************)
CRLF == <<"\r", "\n">>
SP == <<" ">>

Whitespace == {" ", "\t", "\r", "\n"}

UpperCase ==
  <<"A","B","C","D","E","F","G","H","I","J","K","L","M",
    "N","O","P","Q","R","S","T","U","V","W","X","Y","Z">>
LowerCase ==
  <<"a","b","c","d","e","f","g","h","i","j","k","l","m",
    "n","o","p","q","r","s","t","u","v","w","x","y","z">>

Digits == <<"0","1","2","3","4","5","6","7","8","9">>

Repeat(b, n) == [i \in 1..n |-> b]

MinOf(S) == CHOOSE i \in S : \A j \in S : i <= j

\* pat occurs in s at position i
MatchesAt(s, pat, i) ==
  /\ i + Len(pat) - 1 <= Len(s)
  /\ \A k \in 1..Len(pat) : s[i + k - 1] = pat[k]

\* str::find: the position of the first occurrence of pat in s, 0 when none
find(s, pat) ==
  LET hits == {i \in 1..(Len(s) - Len(pat) + 1) : MatchesAt(s, pat, i)}
  IN  IF hits = {} THEN 0 ELSE MinOf(hits)

\* str::split_once: Some((before, after)) around the first occurrence of pat
split_once(s, pat) ==
  LET i == find(s, pat)
  IN  IF i = 0 THEN <<>>
      ELSE << <<SubSeq(s, 1, i - 1), SubSeq(s, i + Len(pat), Len(s))>> >>

\* str::split: the pieces between the occurrences of pat (one piece, s itself,
\* when pat does not occur, also for the empty s)
RECURSIVE split(_, _)
split(s, pat) ==
  LET r == split_once(s, pat)
  IN  IF r = <<>> THEN <<s>> ELSE <<r[1][1]>> \o split(r[1][2], pat)

\* str::split_whitespace: the maximal runs of non-whitespace bytes
RECURSIVE split_whitespace(_)
split_whitespace(s) ==
  IF s = <<>> THEN <<>>
  ELSE IF s[1] \in Whitespace THEN split_whitespace(Tail(s))
  ELSE LET stops == {i \in 1..Len(s) : s[i] \in Whitespace}
           e == IF stops = {} THEN Len(s) + 1 ELSE MinOf(stops)
       IN  <<SubSeq(s, 1, e - 1)>> \o split_whitespace(SubSeq(s, e, Len(s)))

starts_with(s, pat) == MatchesAt(s, pat, 1)

\* str::strip_prefix, on a string known to start with pat
strip_prefix(s, pat) == SubSeq(s, Len(pat) + 1, Len(s))

LowerByte(b) ==
  LET at == {i \in 1..Len(UpperCase) : UpperCase[i] = b}
  IN  IF at = {} THEN b ELSE LowerCase[CHOOSE i \in at : TRUE]

\* str::to_lowercase
to_lowercase(s) == [i \in 1..Len(s) |-> LowerByte(s[i])]

\* usize::to_string: the decimal digits of n
RECURSIVE to_string(_)
to_string(n) ==
  IF n < 10 THEN <<Digits[n + 1]>>
  ELSE to_string(n \div 10) \o <<Digits[(n % 10) + 1]>>

\* std::str::from_utf8(..).is_ok(), for the bytes of the model: a lead byte
\* xC3 is followed by its continuation byte xA9, which stands nowhere else
from_utf8_ok(s) ==
  \A i \in 1..Len(s) :
    /\ s[i] = "xC3" => (i < Len(s) /\ s[i + 1] = "xA9")
    /\ s[i] = "xA9" => (i > 1 /\ s[i - 1] = "xC3")

\* stream.read(&mut buffer): what one read of the 256-byte buffer returns of
\* the bytes the client sent, all of which have arrived when the job reads
read(sent) == SubSeq(sent, 1, IF Len(sent) < BufferSize THEN Len(sent) ELSE BufferSize)

(***************************************************************************)
(* Request::from_str                                                       *)
(***************************************************************************)
\* HashMap::insert: a key already present takes the new value
Insert(h, k, v) == [x \in (DOMAIN h) \cup {k} |-> IF x = k THEN v ELSE h[x]]

\* HashMap::get
Get(h, k) == IF k \in DOMAIN h THEN <<h[k]>> ELSE <<>>

\* line.split_once(": ").map(|(h, c)| (h.to_lowercase(), c)): None where the
\* unwrap that follows panics
HeaderPair(line) ==
  LET r == split_once(line, <<":", " ">>)
  IN  IF r = <<>> THEN <<>> ELSE << <<to_lowercase(r[1][1]), r[1][2]>> >>

\* .collect::<HashMap<_, _>>() of the pairs, in order: a later pair replaces
\* an earlier one of the same key
RECURSIVE Collect(_, _)
Collect(h, pairs) ==
  IF pairs = <<>> THEN h
  ELSE Collect(Insert(h, pairs[1][1][1], pairs[1][1][2]), Tail(pairs))

\* Request::from_str: Some(request), or None when one of its unwraps panics
from_str(s) ==
  LET first == split_once(s, CRLF)
  IN  IF first = <<>> THEN <<>>
      ELSE
        LET status_line == first[1][1]
            rest == first[1][2]
            tokens == split_whitespace(status_line)
        IN  IF Len(tokens) # 3 THEN <<>>
            ELSE
              LET blank == split_once(rest, CRLF \o CRLF)
                  \* unwrap_or_default: ("", "") when rest holds no blank line
                  string_headers == IF blank = <<>> THEN <<>> ELSE blank[1][1]
                  body == IF blank = <<>> THEN <<>> ELSE blank[1][2]
                  lines == split(string_headers, CRLF)
                  pairs == [i \in 1..Len(lines) |-> HeaderPair(lines[i])]
              IN  IF \E i \in 1..Len(pairs) : pairs[i] = <<>> THEN <<>>
                  ELSE << [method |-> tokens[1],
                           path |-> tokens[2],
                           version |-> tokens[3],
                           headers |-> Collect(<<>>, pairs),
                           body |-> body] >>

(***************************************************************************)
(* Response and the handlers                                               *)
(***************************************************************************)
TextPlain == <<"t","e","x","t","/","p","l","a","i","n">>
OctetStream ==
  <<"a","p","p","l","i","c","a","t","i","o","n","/",
    "o","c","t","e","t","-","s","t","r","e","a","m">>
Gzip == <<"g","z","i","p">>
UserAgentKey == <<"u","s","e","r","-","a","g","e","n","t">>
AcceptEncodingKey ==
  <<"a","c","c","e","p","t","-","e","n","c","o","d","i","n","g">>
RootPath == <<"/">>
UserAgentPath == <<"/","u","s","e","r","-","a","g","e","n","t">>
FilesPrefix == <<"/","f","i","l","e","s","/">>
EchoPrefix == <<"/","e","c","h","o","/">>
GET == <<"G","E","T">>
POST == <<"P","O","S","T">>

NoHeaders == [x \in {} |-> <<>>]

\* Response::new
ResponseNew(status_line) ==
  [status_line |-> status_line, headers |-> NoHeaders, body |-> <<>>]

\* the Response both text handlers and handle_get_files build
ResponseWith(content_type, body) ==
  [status_line |-> "HTTP/1.1 200 OK",
   headers |-> [x \in {"Content-Type", "Content-Length"} |->
                  IF x = "Content-Type" THEN content_type
                  ELSE to_string(Len(body))],
   body |-> body]

handle_get_user_agent(request) ==
  LET found == Get(request.headers, UserAgentKey)
      user_agent == IF found = <<>> THEN <<>> ELSE found[1]
  IN  ResponseWith(TextPlain, user_agent)

handle_get_echo(request) ==
  ResponseWith(TextPlain, strip_prefix(request.path, EchoPrefix))

\* the arm of handle_connection's match on request.path (and, under /files/,
\* on request.method) that a request takes
Route(request) ==
  IF request.path = RootPath THEN "root"
  ELSE IF request.path = UserAgentPath THEN "user_agent"
  ELSE IF starts_with(request.path, FilesPrefix) THEN
         IF request.method = GET THEN "get_files"
         ELSE IF request.method = POST THEN "post_files"
         ELSE "unimplemented"
  ELSE IF starts_with(request.path, EchoPrefix) THEN "echo"
  ELSE "not_found"

\* the bytes of the status lines and of the header names of the responses
Text(s) ==
  CASE s = "HTTP/1.1 200 OK" ->
         <<"H","T","T","P","/","1",".","1"," ","2","0","0"," ","O","K">>
    [] s = "HTTP/1.1 201 Created" ->
         <<"H","T","T","P","/","1",".","1"," ","2","0","1"," ","C","r","e","a","t","e","d">>
    [] s = "HTTP/1.1 404 Not Found" ->
         <<"H","T","T","P","/","1",".","1"," ","4","0","4"," ","N","o","t"," ","F","o","u","n","d">>
    [] s = "Content-Type" ->
         <<"C","o","n","t","e","n","t","-","T","y","p","e">>
    [] s = "Content-Length" ->
         <<"C","o","n","t","e","n","t","-","L","e","n","g","t","h">>
    [] s = "Content-Encoding" ->
         <<"C","o","n","t","e","n","t","-","E","n","c","o","d","i","n","g">>

\* the orders in which iter() may go through the keys of a HashMap
HeaderOrders(headers) ==
  {order \in [1..Cardinality(DOMAIN headers) -> DOMAIN headers] :
     \A i, k \in DOMAIN order : i # k => order[i] # order[k]}

\* format!("{k}: {v}\r\n")
HeaderLine(k, v) == Text(k) \o <<":", " ">> \o v \o CRLF

\* the header lines, joined, in the order iter() went through the map
RECURSIVE HeaderLines(_, _)
HeaderLines(headers, order) ==
  IF order = <<>> THEN <<>>
  ELSE HeaderLine(order[1], headers[order[1]]) \o HeaderLines(headers, Tail(order))

\* Response::build, the map iterated in this order
build(response, order) ==
  Text(response.status_line) \o CRLF \o HeaderLines(response.headers, order)
    \o CRLF \o response.body

\* AcceptsGzip as it would be did it compare the pieces without regard to case
AcceptsGzipAnyCase(request) ==
  LET found == Get(request.headers, AcceptEncodingKey)
  IN  /\ found # <<>>
      /\ LET parts == split(found[1], <<",">>)
         IN  \E i \in 1..Len(parts) : to_lowercase(parts[i]) = Gzip

\* accepted_encodings.split(',').contains(&"gzip")
AcceptsGzip(request) ==
  LET found == Get(request.headers, AcceptEncodingKey)
  IN  /\ found # <<>>
      /\ LET parts == split(found[1], <<",">>)
         IN  \E i \in 1..Len(parts) : parts[i] = Gzip

\* Encode as it would be did it compress the body it announces as gzip: the
\* body and its Content-Length change
EncodeCompressing(request, response) ==
  IF AcceptsGzip(request)
  THEN LET body == <<"x1F", "x8B">> \o response.body
       IN  [status_line |-> response.status_line,
            headers |-> Insert(Insert(response.headers, "Content-Encoding", Gzip),
                               "Content-Length", to_string(Len(body))),
            body |-> body]
  ELSE response

\* the encoding step of handle_connection, after the match
Encode(request, response) ==
  IF AcceptsGzip(request)
  THEN [response EXCEPT !.headers = Insert(@, "Content-Encoding", Gzip)]
  ELSE response

(***************************************************************************)
(* The requests clients send                                               *)
(***************************************************************************)
Http11 == <<"H","T","T","P","/","1",".","1">>

RequestLine(method, path) == method \o SP \o path \o SP \o Http11

RECURSIVE HeaderBlock(_)
HeaderBlock(hdrs) ==
  IF hdrs = <<>> THEN <<>> ELSE hdrs[1] \o CRLF \o HeaderBlock(Tail(hdrs))

\* The bytes of a request: the request line, each header line, the blank
\* line, the body.
Wire(line, hdrs, body) == line \o CRLF \o HeaderBlock(hdrs) \o CRLF \o body

Msg(method, path, hdrs, body) ==
  [method |-> method, path |-> path, hdrs |-> hdrs, body |-> body,
   sent |-> Wire(RequestLine(method, path), hdrs, body)]

\* a request whose request line is not made of a method, a path and a version
MsgLine(line, hdrs, body) ==
  [method |-> <<>>, path |-> <<>>, hdrs |-> hdrs, body |-> body,
   sent |-> Wire(line, hdrs, body)]

\* a request whose header block is not closed by a blank line
MsgOpen(method, path, hdrs) ==
  [method |-> method, path |-> path, hdrs |-> hdrs, body |-> <<>>,
   sent |-> RequestLine(method, path) \o CRLF \o HeaderBlock(hdrs)]

HostHeader == <<"H","o","s","t",":"," ","x">>
UserAgentFoo == <<"U","s","e","r","-","A","g","e","n","t",":"," ","f","o","o">>
UserAgentUpper == <<"U","S","E","R","-","A","G","E","N","T",":"," ","f","o","o">>
\* a header line whose name and value are not separated by ": "
HostHeaderNoSpace == <<"H","o","s","t",":","x">>
AcceptEncodingName == <<"A","c","c","e","p","t","-","E","n","c","o","d","i","n","g">>
AcceptEncoding(value) == AcceptEncodingName \o <<":"," ">> \o value
AcceptEncodingUpper(value) ==
  <<"A","C","C","E","P","T","-","E","N","C","O","D","I","N","G",":"," ">> \o value
Br == <<"b","r">>
PUT == <<"P","U","T">>
Hello == <<"h","e","l","l","o">>
FileF == <<"f">>
FileG == <<"g">>
\* a body that does not fit the read buffer together with its request head
LongBody == Repeat("b", BufferSize + 4)

Inputs ==
  [root_host  |-> Msg(GET, RootPath, <<HostHeader>>, <<>>),
   root_ua    |-> Msg(GET, RootPath, <<UserAgentFoo, HostHeader>>, <<>>),
   root_bare  |-> Msg(GET, RootPath, <<>>, <<>>),
   ua_foo     |-> Msg(GET, UserAgentPath, <<HostHeader, UserAgentFoo>>, <<>>),
   ua_upper   |-> Msg(GET, UserAgentPath, <<UserAgentUpper>>, <<>>),
   ua_absent  |-> Msg(GET, UserAgentPath, <<HostHeader>>, <<>>),
   ua_bare    |-> Msg(GET, UserAgentPath, <<>>, <<>>),
   echo_a     |-> Msg(GET, EchoPrefix \o <<"a">>, <<HostHeader>>, <<>>),
   echo_bc    |-> Msg(GET, EchoPrefix \o <<"b","c">>, <<HostHeader>>, <<>>),
   echo_empty |-> Msg(GET, EchoPrefix, <<HostHeader>>, <<>>),
   echo_utf8  |-> Msg(GET, EchoPrefix \o <<"xC3","xA9">>, <<HostHeader>>, <<>>),
   echo_space |-> Msg(GET, EchoPrefix \o <<"a"," ","b">>, <<HostHeader>>, <<>>),
   echo_long  |-> Msg(GET, EchoPrefix \o Repeat("a", BufferSize), <<HostHeader>>, <<>>),
   echo_bare  |-> Msg(GET, EchoPrefix \o <<"d">>, <<>>, <<>>),
   post_f     |-> Msg(POST, FilesPrefix \o FileF, <<HostHeader>>, Hello),
   post_f_a   |-> Msg(POST, FilesPrefix \o FileF, <<HostHeader>>, <<"a">>),
   post_f_long |-> Msg(POST, FilesPrefix \o FileF, <<HostHeader>>, LongBody),
   post_g     |-> Msg(POST, FilesPrefix \o FileG, <<HostHeader>>, <<"x","y">>),
   get_f      |-> Msg(GET, FilesPrefix \o FileF, <<HostHeader>>, <<>>),
   get_f_bare |-> Msg(GET, FilesPrefix \o FileF, <<>>, <<>>),
   get_g      |-> Msg(GET, FilesPrefix \o FileG, <<HostHeader>>, <<>>),
   put_f      |-> Msg(PUT, FilesPrefix \o FileF, <<HostHeader>>, Hello),
   missing    |-> Msg(GET, <<"/","n","o","p","e">>, <<HostHeader>>, <<>>),
   two_tokens |-> MsgLine(GET \o SP \o RootPath, <<HostHeader>>, <<>>),
   bad_header |-> Msg(GET, RootPath, <<HostHeaderNoSpace>>, <<>>),
   root_open  |-> MsgOpen(GET, RootPath, <<HostHeader>>),
   ae_gzip    |-> Msg(GET, EchoPrefix \o <<"a">>,
                      <<HostHeader, AcceptEncoding(Gzip)>>, <<>>),
   ae_list    |-> Msg(GET, EchoPrefix \o <<"a">>,
                      <<AcceptEncoding(Br \o <<",">> \o Gzip)>>, <<>>),
   ae_spaced  |-> Msg(GET, EchoPrefix \o <<"a">>,
                      <<AcceptEncoding(Br \o <<","," ">> \o Gzip)>>, <<>>),
   ae_other   |-> Msg(GET, EchoPrefix \o <<"a">>,
                      <<AcceptEncoding(Br)>>, <<>>),
   ae_upper   |-> Msg(GET, EchoPrefix \o <<"a">>,
                      <<AcceptEncoding(<<"G","z","i","p">>)>>, <<>>),
   ae_name    |-> Msg(GET, UserAgentPath,
                      <<UserAgentFoo, AcceptEncodingUpper(Gzip)>>, <<>>),
   ae_root    |-> Msg(GET, RootPath, <<AcceptEncoding(Gzip)>>, <<>>),
   ae_post    |-> Msg(POST, FilesPrefix \o FileF, <<AcceptEncoding(Gzip)>>, Hello),
   ae_get_f   |-> Msg(GET, FilesPrefix \o FileF, <<AcceptEncoding(Gzip)>>, <<>>),
   ae_missing |-> Msg(GET, <<"/","n","o","p","e">>, <<AcceptEncoding(Gzip)>>, <<>>)]

\* every request of the model
Requests == DOMAIN Inputs
\* the requests that carry an Accept-Encoding header
AcceptEncodingRequests ==
  {"ae_gzip", "ae_list", "ae_spaced", "ae_other", "ae_upper", "ae_name",
   "ae_root", "ae_post", "ae_get_f", "ae_missing"}
\* the requests of the specification of the encoding step
EncodingRequests == AcceptEncodingRequests \cup {"echo_a", "get_f"}
\* the requests of the specification of the files directory
FileRequests == {"post_f", "post_f_a", "get_f"}
\* the requests of the specification of the handlers
HttpRequests == Requests \ AcceptEncodingRequests
\* the requests of the pool specification
PoolRequests == {"echo_a", "echo_bc", "echo_bare"}

\* the files directory the server is started on
NoFiles == [n \in {} |-> <<>>]

(***************************************************************************)
(* The state                                                               *)
(***************************************************************************)
VARIABLES
  acceptor,       \* main's accept loop: "accepting", or "panicked"
  accept_errors,  \* the failed accepts so far
  conn,           \* conn[j]: the request sent on the j-th accepted connection
  jpc,            \* jpc[j]: where the job of connection j stands
  pending,        \* pending[j]: the Response its handler has built, if any
  out,            \* out[j]: the responses written to connection j
  runs,           \* runs[j]: how many times job j was received from the channel
  queue,          \* the jobs in the mpsc channel
  mutex,          \* the worker holding the lock on the receiver, 0 when free
  wpc,            \* wpc[w]: "lock", "recv", "run" or "dead"
  job,            \* job[w]: the job worker w is running, 0 when none
  files           \* the files directory: name -> contents

vars ==
  <<acceptor, accept_errors, conn, jpc, pending, out, runs, queue,
    mutex, wpc, job, files>>

Workers == 1..PoolSize
Jobs == 1..Len(conn)

Finished(j) == jpc[j] \in {"done", "panicked"}
InProgress(j) == jpc[j] \in {"start", "open", "read", "create", "write", "respond"}

\* ThreadPool::new, and main up to its accept loop
Init ==
  /\ acceptor = "accepting"
  /\ accept_errors = 0
  /\ conn = <<>>
  /\ jpc = <<>>
  /\ pending = <<>>
  /\ out = <<>>
  /\ runs = <<>>
  /\ queue = <<>>
  /\ mutex = 0
  /\ wpc = [w \in Workers |-> "lock"]
  /\ job = [w \in Workers |-> 0]
  /\ files = NoFiles

(***************************************************************************)
(* The accept loop and ThreadPool::execute                                 *)
(***************************************************************************)
\* The receiver lives in the Arc the worker threads share: it is dropped when
\* the last of them has unwound.
ReceiverAlive == \E w \in Workers : wpc[w] # "dead"

\* execute as it would be did it ignore the error of send, as in
\* let _ = self.sender.send(job)
executeIgnoringError(j) ==
  IF ReceiverAlive
  THEN /\ queue' = Append(queue, j)
       /\ jpc' = Append(jpc, "queued")
       /\ UNCHANGED acceptor
  ELSE /\ jpc' = Append(jpc, "dropped")
       /\ UNCHANGED <<acceptor, queue>>

\* self.sender.send(job).unwrap(): the job is queued, or, the receiver being
\* gone, main panics and the closure (with its stream) is dropped
execute(j) ==
  IF ReceiverAlive
  THEN /\ queue' = Append(queue, j)
       /\ jpc' = Append(jpc, "queued")
       /\ UNCHANGED acceptor
  ELSE /\ acceptor' = "panicked"
       /\ jpc' = Append(jpc, "dropped")
       /\ UNCHANGED queue

\* Ok(stream) => pool.execute(|| handle_connection(stream, directory_path))
Accept(requests, limit) ==
  /\ acceptor = "accepting"
  /\ Len(conn) < limit
  /\ \E r \in requests : conn' = Append(conn, r)
  /\ pending' = Append(pending, <<>>)
  /\ out' = Append(out, <<>>)
  /\ runs' = Append(runs, 0)
  /\ execute(Len(conn) + 1)
  /\ UNCHANGED <<accept_errors, mutex, wpc, job, files>>

\* Err(e) => println!("error: {}", e)
AcceptError ==
  /\ acceptor = "accepting"
  /\ accept_errors < MaxAcceptErrors
  /\ accept_errors' = accept_errors + 1
  /\ UNCHANGED <<acceptor, conn, jpc, pending, out, runs, queue,
                 mutex, wpc, job, files>>

(***************************************************************************)
(* The worker loop                                                         *)
(***************************************************************************)
\* Lock as it would be were the receiver shared without its Mutex
LockUnguarded(w) ==
  /\ wpc[w] = "lock"
  /\ mutex' = w
  /\ wpc' = [wpc EXCEPT ![w] = "recv"]
  /\ UNCHANGED <<acceptor, accept_errors, conn, jpc, pending, out,
                 runs, queue, job, files>>

\* receiver.lock().unwrap()
Lock(w) ==
  /\ wpc[w] = "lock"
  /\ mutex = 0
  /\ mutex' = w
  /\ wpc' = [wpc EXCEPT ![w] = "recv"]
  /\ UNCHANGED <<acceptor, accept_errors, conn, jpc, pending, out,
                 runs, queue, job, files>>

\* Recv as it would be did the guard live as long as the job, as in
\* while let Ok(job) = receiver.lock().unwrap().recv() { job() }
RecvHoldingLock(w) ==
  /\ wpc[w] = "recv"
  /\ queue # <<>>
  /\ LET j == Head(queue)
     IN  /\ job' = [job EXCEPT ![w] = j]
         /\ jpc' = [jpc EXCEPT ![j] = "start"]
         /\ runs' = [runs EXCEPT ![j] = @ + 1]
  /\ queue' = Tail(queue)
  /\ wpc' = [wpc EXCEPT ![w] = "run"]
  /\ UNCHANGED <<acceptor, accept_errors, conn, pending, out, files, mutex>>

\* Recv as it would be did the worker take the job that came last
RecvNewest(w) ==
  /\ wpc[w] = "recv"
  /\ queue # <<>>
  /\ LET j == queue[Len(queue)]
     IN  /\ job' = [job EXCEPT ![w] = j]
         /\ jpc' = [jpc EXCEPT ![j] = "start"]
         /\ runs' = [runs EXCEPT ![j] = @ + 1]
  /\ queue' = SubSeq(queue, 1, Len(queue) - 1)
  /\ mutex' = 0
  /\ wpc' = [wpc EXCEPT ![w] = "run"]
  /\ UNCHANGED <<acceptor, accept_errors, conn, pending, out, files>>

\* Recv as it would be did the worker hand the job to a thread of its own
\* and go back to the lock
RecvDetached(w) ==
  /\ wpc[w] = "recv"
  /\ queue # <<>>
  /\ jpc' = [jpc EXCEPT ![Head(queue)] = "start"]
  /\ runs' = [runs EXCEPT ![Head(queue)] = @ + 1]
  /\ queue' = Tail(queue)
  /\ mutex' = 0
  /\ wpc' = [wpc EXCEPT ![w] = "lock"]
  /\ UNCHANGED <<acceptor, accept_errors, conn, pending, out, files, job>>

\* .recv().unwrap(), the guard dropped at the end of the statement: the
\* worker holds the job and no longer the lock
Recv(w) ==
  /\ wpc[w] = "recv"
  /\ queue # <<>>
  /\ LET j == Head(queue)
     IN  /\ job' = [job EXCEPT ![w] = j]
         /\ jpc' = [jpc EXCEPT ![j] = "start"]
         /\ runs' = [runs EXCEPT ![j] = @ + 1]
  /\ queue' = Tail(queue)
  /\ mutex' = 0
  /\ wpc' = [wpc EXCEPT ![w] = "run"]
  /\ UNCHANGED <<acceptor, accept_errors, conn, pending, out, files>>

\* Panic as it would be did a panic abort the process: every thread ends
PanicAborts(w) ==
  /\ wpc' = [v \in Workers |-> "dead"]
  /\ jpc' = [jpc EXCEPT ![job[w]] = "panicked"]
  /\ job' = [v \in Workers |-> 0]

\* a panic inside job(): the thread unwinds, the stream is dropped unanswered
Panic(w) ==
  /\ wpc' = [wpc EXCEPT ![w] = "dead"]
  /\ jpc' = [jpc EXCEPT ![job[w]] = "panicked"]
  /\ job' = [job EXCEPT ![w] = 0]

\* job() returns: the worker loops
Return(w) ==
  /\ wpc' = [wpc EXCEPT ![w] = "lock"]
  /\ jpc' = [jpc EXCEPT ![job[w]] = "done"]
  /\ job' = [job EXCEPT ![w] = 0]

(***************************************************************************)
(* handle_connection                                                       *)
(***************************************************************************)
\* stream.read, from_utf8(..).unwrap() and Request::from_str of the bytes a
\* client sent: Some(request), None when one of them panics
Parse(sent) ==
  LET request_str == read(sent)
  IN  IF from_utf8_ok(request_str) THEN from_str(request_str) ELSE <<>>

\* the request of each input, parsed
Parsed == [r \in Requests |-> Parse(Inputs[r].sent)]

RequestOf(j) == Parsed[conn[j]][1]

\* p.strip_prefix("/files/").unwrap()
relative_path(request) == strip_prefix(request.path, FilesPrefix)

\* the handler has built its Response: the encoding step and the write follow
Built(j, response) ==
  /\ pending' = [pending EXCEPT ![j] = <<response>>]
  /\ jpc' = [jpc EXCEPT ![j] = "respond"]
  /\ UNCHANGED <<wpc, job>>

\* handle_connection from its start to the arm of the match the request takes
Start(w) ==
  /\ wpc[w] = "run"
  /\ jpc[job[w]] = "start"
  /\ LET j == job[w]
         parsed == Parsed[conn[j]]
     IN  IF parsed = <<>> THEN Panic(w) /\ UNCHANGED pending
         ELSE LET request == parsed[1]
                  route == Route(request)
              IN  CASE route = "root" -> Built(j, ResponseNew("HTTP/1.1 200 OK"))
                    [] route = "user_agent" -> Built(j, handle_get_user_agent(request))
                    [] route = "echo" -> Built(j, handle_get_echo(request))
                    [] route = "not_found" ->
                         Built(j, ResponseNew("HTTP/1.1 404 Not Found"))
                    [] route = "get_files" ->
                         /\ jpc' = [jpc EXCEPT ![j] = "open"]
                         /\ UNCHANGED <<pending, wpc, job>>
                    [] route = "post_files" ->
                         /\ jpc' = [jpc EXCEPT ![j] = "create"]
                         /\ UNCHANGED <<pending, wpc, job>>
                    \* unimplemented!()
                    [] OTHER -> Panic(w) /\ UNCHANGED pending
  /\ UNCHANGED <<acceptor, accept_errors, conn, out, runs, queue,
                 mutex, files>>

\* handle_get_files: File::open, 404 when it fails
Open(w) ==
  /\ wpc[w] = "run"
  /\ jpc[job[w]] = "open"
  /\ LET j == job[w]
     IN  IF relative_path(RequestOf(j)) \in DOMAIN files
         THEN /\ jpc' = [jpc EXCEPT ![j] = "read"]
              /\ UNCHANGED pending
         ELSE /\ jpc' = [jpc EXCEPT ![j] = "respond"]
              /\ pending' = [pending EXCEPT ![j] =
                               <<ResponseNew("HTTP/1.1 404 Not Found")>>]
  /\ UNCHANGED <<acceptor, accept_errors, conn, out, runs, queue,
                 mutex, wpc, job, files>>

\* handle_get_files: file.read_to_string(&mut contents).unwrap() and the
\* Response
ReadFile(w) ==
  /\ wpc[w] = "run"
  /\ jpc[job[w]] = "read"
  /\ LET j == job[w]
         contents == files[relative_path(RequestOf(j))]
     IN  IF from_utf8_ok(contents)
         THEN Built(j, ResponseWith(OctetStream, contents))
         ELSE Panic(w) /\ UNCHANGED pending
  /\ UNCHANGED <<acceptor, accept_errors, conn, out, runs, queue,
                 mutex, files>>

\* handle_post_files: File::create makes the file or truncates it
Create(w) ==
  /\ wpc[w] = "run"
  /\ jpc[job[w]] = "create"
  /\ LET j == job[w]
         name == relative_path(RequestOf(j))
     IN  /\ files' = [n \in (DOMAIN files) \cup {name} |->
                        IF n = name THEN <<>> ELSE files[n]]
         /\ jpc' = [jpc EXCEPT ![j] = "write"]
  /\ UNCHANGED <<acceptor, accept_errors, conn, pending, out, runs,
                 queue, mutex, wpc, job>>

\* write of data at the start of a file, as a handle just created does it:
\* what the file holds beyond the data stays
WriteAtStart(contents, data) ==
  data \o SubSeq(contents, Len(data) + 1, Len(contents))

\* handle_post_files: file.write_all(request.body.as_bytes()) and the Response
WriteFile(w) ==
  /\ wpc[w] = "run"
  /\ jpc[job[w]] = "write"
  /\ LET j == job[w]
         name == relative_path(RequestOf(j))
     IN  /\ files' = [files EXCEPT ![name] = WriteAtStart(@, RequestOf(j).body)]
         /\ Built(j, ResponseNew("HTTP/1.1 201 Created"))
  /\ UNCHANGED <<acceptor, accept_errors, conn, out, runs, queue, mutex>>

\* the encoding step, stream.write_all(response.build().as_bytes()), and the
\* return of the job
Respond(w) ==
  /\ wpc[w] = "run"
  /\ jpc[job[w]] = "respond"
  /\ LET j == job[w]
     IN  out' = [out EXCEPT ![j] = Append(@, Encode(RequestOf(j), pending[j][1]))]
  /\ Return(w)
  /\ UNCHANGED <<acceptor, accept_errors, conn, pending, runs, queue,
                 mutex, files>>

\* the steps of a worker whose jobs reach no file
PoolWorker(w) ==
  \/ Lock(w)
  \/ Recv(w)
  \/ Start(w)
  \/ Respond(w)

Worker(w) ==
  \/ Lock(w)
  \/ Recv(w)
  \/ Start(w)
  \/ Open(w)
  \/ ReadFile(w)
  \/ Create(w)
  \/ WriteFile(w)
  \/ Respond(w)

(***************************************************************************)
(* Specifications                                                          *)
(***************************************************************************)
\* The pool under concurrent connections, whose requests reach no file.
Next ==
  \/ Accept(PoolRequests, MaxConns)
  \/ AcceptError
  \/ \E w \in Workers : PoolWorker(w)

Spec == Init /\ [][Next]_vars

\* The pool under fair scheduling of the worker threads.
FairSpec == Spec /\ \A w \in Workers : WF_vars(PoolWorker(w))

\* Every request of the model without an Accept-Encoding header, sent by a
\* client that waits for the end of one connection before it opens the next.
NextHttp ==
  \/ (\A j \in Jobs : Finished(j)) /\ Accept(HttpRequests, MaxHttpConns)
  \/ AcceptError
  \/ \E w \in Workers : Worker(w)

HttpSpec == Init /\ [][NextHttp]_vars

\* The requests that carry an Accept-Encoding header and two that carry
\* none, sent by a client that waits for the end of one connection before
\* it opens the next.
NextEncoding ==
  \/ (\A j \in Jobs : Finished(j)) /\ Accept(EncodingRequests, MaxHttpConns)
  \/ AcceptError
  \/ \E w \in Workers : Worker(w)

EncodingSpec == Init /\ [][NextEncoding]_vars

\* Posts and a get of one file under concurrent connections.
NextFile ==
  \/ Accept(FileRequests, MaxConns)
  \/ AcceptError
  \/ \E w \in Workers : Worker(w)

FileSpec == Init /\ [][NextFile]_vars

(***************************************************************************)
(* Properties of the pool                                                  *)
(***************************************************************************)
Running(j) == {w \in Workers : job[w] = j}

\* C1: every job is received from the channel at most once and is held by at
\* most one worker, no job sits in the channel twice or while it is held, and
\* at most one worker is between lock() and the end of recv(), which is the
\* worker holding the mutex.
C1_JobRunsAtMostOnce ==
  /\ \A j \in Jobs :
       /\ runs[j] <= 1
       /\ Cardinality(Running(j)) <= 1
       /\ Cardinality({i \in 1..Len(queue) : queue[i] = j}) <= 1
       /\ (\E i \in 1..Len(queue) : queue[i] = j) => (runs[j] = 0 /\ Running(j) = {})
  /\ Cardinality({w \in Workers : wpc[w] = "recv"}) <= 1
  /\ \A w \in Workers : wpc[w] = "recv" <=> mutex = w

\* two workers run two jobs at once, each received once
C1_Witness ==
  \E w1, w2 \in Workers :
    /\ w1 # w2
    /\ wpc[w1] = "run" /\ wpc[w2] = "run"
    /\ job[w1] # job[w2]
    /\ runs[job[w1]] = 1 /\ runs[job[w2]] = 1

\* C2: a job in the channel is eventually received by a worker.
C2_EveryJobRuns ==
  \A j \in 1..MaxConns :
    (j \in Jobs /\ jpc[j] = "queued") ~> (j \in Jobs /\ jpc[j] # "queued")

\* C3: the number of workers able to take jobs equals the pool's size.
C3_PoolKeepsItsSize ==
  Cardinality({w \in Workers : wpc[w] # "dead"}) = PoolSize

\* C4: a worker runs a job exactly while it is in its "run" position, a job
\* in progress is run by exactly one worker, at most PoolSize jobs are in
\* progress; a worker takes a job only when it runs none and parts with its
\* job only when the job has finished, and a job leaves the channel only
\* while fewer than PoolSize jobs are in progress.
C4_OneJobPerWorker ==
  /\ [](/\ \A w \in Workers : wpc[w] = "run" <=> job[w] # 0
        /\ \A j \in Jobs : InProgress(j) <=> Cardinality(Running(j)) = 1
        /\ Cardinality({j \in Jobs : InProgress(j)}) <= PoolSize)
  /\ [][/\ \A w \in Workers :
             job'[w] # job[w] =>
               \/ job[w] = 0 /\ wpc[w] = "recv" /\ jpc[job'[w]] = "queued"
               \/ job'[w] = 0 /\ jpc'[job[w]] \in {"done", "panicked"}
        /\ \A j \in Jobs :
             (jpc[j] = "queued" /\ jpc'[j] # "queued") =>
               /\ jpc'[j] = "start"
               /\ Cardinality({i \in Jobs : InProgress(i)}) < PoolSize
      ]_vars

\* every worker is busy with a job of its own while a job waits in the channel
C4_Witness ==
  /\ \A w \in Workers : wpc[w] = "run" /\ InProgress(job[w])
  /\ Cardinality({job[w] : w \in Workers}) = PoolSize
  /\ \E j \in Jobs : jpc[j] = "queued"

\* C5: the acceptor is accepting, and every accepted connection became a job.
C5_AcceptLoopGoesOn ==
  /\ acceptor = "accepting"
  /\ \A j \in Jobs : jpc[j] # "dropped"

(***************************************************************************)
(* Properties of the responses                                             *)
(***************************************************************************)
\* connection j has received exactly one response, with this status line,
\* these two headers and this body
Answered(j, status_line, content_type, content_length, body) ==
  /\ Len(out[j]) = 1
  /\ out[j][1].status_line = status_line
  /\ "Content-Type" \in DOMAIN out[j][1].headers
  /\ out[j][1].headers["Content-Type"] = content_type
  /\ "Content-Length" \in DOMAIN out[j][1].headers
  /\ out[j][1].headers["Content-Length"] = content_length
  /\ out[j][1].body = body

\* connection j has received exactly one response, with this status line and
\* an empty body
AnsweredEmpty(j, status_line) ==
  /\ Len(out[j]) = 1
  /\ out[j][1].status_line = status_line
  /\ out[j][1].body = <<>>

\* the requests GET /echo/<s> of the model whose s holds no whitespace and
\* which fit the read buffer: the input, s, the byte length of s
EchoCases ==
  { <<"echo_a", <<"a">>, <<"1">> >>,
    <<"echo_bc", <<"b","c">>, <<"2">> >>,
    <<"echo_empty", <<>>, <<"0">> >>,
    <<"echo_utf8", <<"xC3","xA9">>, <<"2">> >>,
    <<"echo_bare", <<"d">>, <<"1">> >> }

\* C6: when several connections carry distinct /echo/ paths, each connection
\* whose job has ended was received once and has received exactly one
\* response, the echo of its own path.
C6_EachItsOwnEcho ==
  ( /\ Len(conn) >= 2
    /\ \A i, j \in Jobs : i # j => Inputs[conn[i]].path # Inputs[conn[j]].path ) =>
    \A j \in Jobs : \A c \in EchoCases :
      (conn[j] = c[1] /\ Finished(j)) =>
        /\ runs[j] = 1
        /\ Answered(j, "HTTP/1.1 200 OK", TextPlain, c[3], c[2])

\* C7: a request GET /echo/<s>, once its job has ended, has been answered
\* 200 OK with Content-Type text/plain, Content-Length the byte length of s
\* and body s.
C7_EchoAnswersS ==
  \A j \in Jobs : \A c \in EchoCases :
    (conn[j] = c[1] /\ Finished(j)) =>
      Answered(j, "HTTP/1.1 200 OK", TextPlain, c[3], c[2])

\* C8: a request GET /, once its job has ended, has been answered 200 OK with
\* an empty body, whatever its headers, none included.
C8_RootAnswers200 ==
  \A j \in Jobs :
    (conn[j] \in {"root_host", "root_ua", "root_bare"} /\ Finished(j)) =>
      AnsweredEmpty(j, "HTTP/1.1 200 OK")

\* the requests to /user-agent of the model: the input, the value of its
\* User-Agent header (empty when it has none), the byte length of the value
UserAgentCases ==
  { <<"ua_foo", <<"f","o","o">>, <<"3">> >>,
    <<"ua_upper", <<"f","o","o">>, <<"3">> >>,
    <<"ua_absent", <<>>, <<"0">> >>,
    <<"ua_bare", <<>>, <<"0">> >> }

\* C9: a request to /user-agent, once its job has ended, has been answered
\* 200 OK with body the value of its User-Agent header, the name matched
\* without regard to case, or the empty body when it has none, and
\* Content-Length the byte length of that body.
C9_UserAgentAnswers ==
  \A j \in Jobs : \A c \in UserAgentCases :
    (conn[j] = c[1] /\ Finished(j)) =>
      Answered(j, "HTTP/1.1 200 OK", TextPlain, c[3], c[2])

\* the decimal digits of the lengths of the bodies the model posts
BodyLength(body) ==
  CASE body = Hello -> <<"5">>
    [] body = <<"a">> -> <<"1">>
    [] body = <<"x","y">> -> <<"2">>
    [] body = LongBody -> <<"2","6","0">>

IsPost(r, name) ==
  Inputs[r].method = POST /\ Inputs[r].path = FilesPrefix \o name

IsGet(r, name) ==
  Inputs[r].method = GET /\ Inputs[r].path = FilesPrefix \o name

\* C10: when POST /files/f with body B was answered 201 Created and a later
\* connection, with no POST to f between the two, sent GET /files/f, then the
\* GET, once its job has ended, has been answered 200 OK with Content-Type
\* application/octet-stream and body B.
C10_RoundTrip ==
  \A name \in {FileF, FileG} : \A p, g \in Jobs :
    ( /\ p < g
      /\ IsPost(conn[p], name)
      /\ AnsweredEmpty(p, "HTTP/1.1 201 Created")
      /\ \A k \in Jobs : (p < k /\ k < g) => ~IsPost(conn[k], name)
      /\ IsGet(conn[g], name)
      /\ Finished(g) ) =>
    Answered(g, "HTTP/1.1 200 OK", OctetStream,
             BodyLength(Inputs[conn[p]].body), Inputs[conn[p]].body)

(***************************************************************************)
(* Properties of the dispatch                                              *)
(***************************************************************************)
\* the routing table of the specification, read in its stated order: exact
\* "/", exact "/user-agent", prefix "/echo/", prefix "/files/" under GET and
\* under POST, anything else 404
TableRoute(method, path) ==
  IF path = RootPath THEN "root"
  ELSE IF path = UserAgentPath THEN "user_agent"
  ELSE IF starts_with(path, EchoPrefix) THEN "echo"
  ELSE IF starts_with(path, FilesPrefix) /\ method = GET THEN "get_files"
  ELSE IF starts_with(path, FilesPrefix) /\ method = POST THEN "post_files"
  ELSE "not_found"

\* no connection before j posted the file of this name
NeverPosted(j, name) == \A p \in 1..(j - 1) : ~IsPost(conn[p], name)

\* C11: for every request that parses, once handle_connection has taken an
\* arm of its match, the arm is the row of the specification's table for the
\* request's method and path, and the job does not fail; a request the
\* table sends to 404, and a GET of a file never posted, is answered 404 Not
\* Found with an empty body once its job has ended.
C11_RouteIsTheTable ==
  \A j \in Jobs :
    (Parsed[conn[j]] # <<>> /\ jpc[j] \notin {"queued", "dropped", "start"}) =>
      LET r == Inputs[conn[j]]
          route == TableRoute(r.method, r.path)
      IN  /\ Route(RequestOf(j)) = route
          /\ jpc[j] # "panicked"
          /\ ( /\ Finished(j)
               /\ \/ route = "not_found"
                  \/ /\ route = "get_files"
                     /\ NeverPosted(j, strip_prefix(r.path, FilesPrefix)) ) =>
               AnsweredEmpty(j, "HTTP/1.1 404 Not Found")

\* the malformed requests of the model: a request line of four tokens, one
\* of two tokens, a header line without ": "
MalformedRequests == {"echo_space", "two_tokens", "bad_header"}

\* C12: a malformed request, once its job has ended, has been answered 404
\* Not Found with an empty body.
C12_MalformedAnswers404 ==
  \A j \in Jobs :
    (conn[j] \in MalformedRequests /\ Finished(j)) =>
      AnsweredEmpty(j, "HTTP/1.1 404 Not Found")

(***************************************************************************)
(* Properties of the encoding step                                         *)
(***************************************************************************)
\* the requests of the encoding step: the input, and whether it has an
\* Accept-Encoding header, the name matched without regard to case, one of
\* whose pieces between commas is exactly gzip (" gzip", the piece after
\* ", ", and "Gzip" are not)
GzipCases ==
  { <<"ae_gzip", TRUE>>, <<"ae_list", TRUE>>, <<"ae_spaced", FALSE>>,
    <<"ae_other", FALSE>>, <<"ae_upper", FALSE>>, <<"ae_name", TRUE>>,
    <<"ae_root", TRUE>>, <<"ae_post", TRUE>>, <<"ae_get_f", TRUE>>,
    <<"ae_missing", TRUE>>, <<"echo_a", FALSE>>, <<"get_f", FALSE>> }

\* the one response written to connection j carries Content-Encoding: gzip
CarriesGzip(j) ==
  /\ "Content-Encoding" \in DOMAIN out[j][1].headers
  /\ out[j][1].headers["Content-Encoding"] = Gzip

\* C13: a request whose job has returned has received one response, which
\* carries Content-Encoding: gzip when the request has an Accept-Encoding
\* header one of whose comma-separated pieces is exactly gzip, and carries
\* no Content-Encoding header otherwise.
C13_GzipIffAccepted ==
  \A j \in Jobs : \A c \in GzipCases :
    (conn[j] = c[1] /\ jpc[j] = "done") =>
      /\ Len(out[j]) = 1
      /\ IF c[2] THEN CarriesGzip(j)
         ELSE "Content-Encoding" \notin DOMAIN out[j][1].headers

\* a list with gzip in it was answered with the header, and a value that is
\* gzip but for its case was answered without
C13_Witness ==
  \E i, j \in Jobs :
    /\ conn[i] = "ae_list" /\ jpc[i] = "done" /\ CarriesGzip(i)
    /\ conn[j] = "ae_upper" /\ jpc[j] = "done"
    /\ "Content-Encoding" \notin DOMAIN out[j][1].headers

\* C14: the step that writes the response of a connection writes one
\* response, with the status line and the body of the Response its handler
\* built, every header of it with its value, Content-Type and Content-Length
\* among them, and no other header but, possibly, Content-Encoding; in
\* whichever order build goes through the headers, the bytes written are the
\* handler's status line, header lines and body, with the Content-Encoding
\* line, if any, among the header lines and nothing else.
C14_EncodingKeepsTheRest ==
  [][\A j \in Jobs :
       out'[j] # out[j] =>
         /\ out[j] = <<>> /\ Len(out'[j]) = 1
         /\ Len(pending[j]) = 1
         /\ LET built == pending[j][1]
                written == out'[j][1]
            IN  /\ written.status_line = built.status_line
                /\ written.body = built.body
                /\ \A h \in DOMAIN built.headers :
                     h \in DOMAIN written.headers
                       /\ written.headers[h] = built.headers[h]
                /\ (DOMAIN written.headers) \ (DOMAIN built.headers)
                     \subseteq {"Content-Encoding"}
                /\ \A order \in HeaderOrders(written.headers) :
                     IF "Content-Encoding" \in DOMAIN written.headers
                     THEN LET k == CHOOSE i \in DOMAIN order :
                                     order[i] = "Content-Encoding"
                          IN  build(written, order) =
                                Text(built.status_line) \o CRLF
                                  \o HeaderLines(built.headers, SubSeq(order, 1, k - 1))
                                  \o HeaderLine("Content-Encoding", Gzip)
                                  \o HeaderLines(built.headers,
                                                 SubSeq(order, k + 1, Len(order)))
                                  \o CRLF \o built.body
                     ELSE build(written, order) = build(built, order)
    ]_vars

\* both a response with Content-Encoding: gzip added to the Content-Type,
\* the Content-Length and the body of its handler, and a response of the same
\* handler left as built, have been written
C14_Witness ==
  \E i, j \in Jobs :
    /\ conn[i] = "ae_gzip" /\ Len(out[i]) = 1 /\ CarriesGzip(i)
    /\ Answered(i, "HTTP/1.1 200 OK", TextPlain, <<"1">>, <<"a">>)
    /\ conn[j] = "echo_a" /\ Len(out[j]) = 1
    /\ DOMAIN out[j][1].headers = {"Content-Type", "Content-Length"}

(***************************************************************************)
(* Properties of the parser                                                *)
(***************************************************************************)
\* the requests of the model whose part after the request line holds no
\* blank line: those without header lines, where it is the CRLF that ends
\* the head, and the one whose header block is not closed
NoBlankLineRequests ==
  {"root_bare", "ua_bare", "echo_bare", "get_f_bare", "root_open"}

\* C15: Request::from_str, run by handle_connection on a request whose part
\* after the request line holds no blank line, succeeds, with an empty
\* header map and an empty body.
C15_NoBlankLineParses ==
  \A j \in Jobs :
    (conn[j] \in NoBlankLineRequests /\ jpc[j] \notin {"queued", "dropped", "start"}) =>
      /\ jpc[j] # "panicked"
      /\ Parsed[conn[j]] # <<>>
      /\ RequestOf(j).headers = NoHeaders
      /\ RequestOf(j).body = <<>>

(***************************************************************************)
(* Properties of the files directory                                       *)
(***************************************************************************)
\* the connections that post the file of this name
Posts(name) == {p \in Jobs : IsPost(conn[p], name)}

\* C16: once the jobs of all the connections that posted f, two at least,
\* have returned, f holds the body of one of them.
C16_LastWriterWins ==
  ( /\ Cardinality(Posts(FileF)) >= 2
    /\ \A p \in Posts(FileF) : jpc[p] = "done" ) =>
    /\ FileF \in DOMAIN files
    /\ files[FileF] \in {Inputs[conn[p]].body : p \in Posts(FileF)}

(***************************************************************************)
(* Properties of the failures                                              *)
(***************************************************************************)
\* the connections whose request failed in Request::from_str
FailedToParse == {j \in Jobs : jpc[j] = "panicked" /\ Parsed[conn[j]] = <<>>}

\* C17, as the specification states it: once a request has failed in
\* Request::from_str, no connection is accepted and none is answered.
C17_FailureStopsTheProcess ==
  [][FailedToParse # {} => (conn' = conn /\ out' = out)]_vars

\* C17, amended: a job that fails ends the one worker that ran it and leaves
\* its connection unanswered; the step changes nothing of the other workers,
\* the acceptor, the channel or the other connections. As many workers have
\* ended as jobs have failed, and the acceptor is accepting as long as a
\* worker is left.
C17_FailureEndsOneWorker ==
  /\ [](/\ Cardinality({w \in Workers : wpc[w] = "dead"})
             = Cardinality({j \in Jobs : jpc[j] = "panicked"})
        /\ \A j \in Jobs : jpc[j] = "panicked" => out[j] = <<>>
        /\ ReceiverAlive => acceptor = "accepting")
  /\ [][\A j \in Jobs :
          (jpc[j] # "panicked" /\ jpc'[j] = "panicked") =>
            \E w \in Workers :
              /\ job[w] = j
              /\ wpc'[w] = "dead"
              /\ \A v \in Workers \ {w} : wpc'[v] = wpc[v] /\ job'[v] = job[v]
              /\ UNCHANGED <<acceptor, conn, out, queue, mutex>>
      ]_vars

\* a request failed in Request::from_str, and a connection opened after the
\* failure was accepted and has been answered
C17_Witness ==
  /\ acceptor = "accepting"
  /\ \E i, j \in Jobs :
       /\ i < j
       /\ i \in FailedToParse
       /\ jpc[j] = "done"
       /\ Len(out[j]) = 1

(***************************************************************************)
(* Properties of the channel                                               *)
(***************************************************************************)
\* C18: a worker that runs a job, or has ended, does not hold the mutex: its
\* holder, if any, is a worker waiting in recv(). So while a job is in the
\* channel and a worker neither runs a job nor has ended, some worker can
\* take the lock or receive the job, whatever the other workers do.
C18_LockFreeWhileRunning ==
  /\ \A w \in Workers : wpc[w] \in {"run", "dead"} => mutex # w
  /\ mutex # 0 => wpc[mutex] = "recv"
  /\ (queue # <<>> /\ \E w \in Workers : wpc[w] \in {"lock", "recv"}) =>
       \/ mutex = 0 /\ \E w \in Workers : wpc[w] = "lock"
       \/ mutex # 0 /\ wpc[mutex] = "recv"

\* while one worker runs a job, another holds the lock and is about to
\* receive the job in the channel
C18_Witness ==
  \E w, v \in Workers :
    /\ wpc[w] = "run" /\ InProgress(job[w])
    /\ wpc[v] = "recv" /\ mutex = v
    /\ queue # <<>>

\* C19: the channel holds the jobs in the order of the calls of execute,
\* which is the order of the connections, and when a job has been received
\* by a worker, every job passed to execute before it has been received too.
C19_FirstInFirstOut ==
  /\ \A k \in 1..(Len(queue) - 1) : queue[k] < queue[k + 1]
  /\ \A k \in 1..Len(queue) : queue[k] \in Jobs /\ jpc[queue[k]] = "queued"
  /\ \A i, j \in Jobs :
       (i < j /\ jpc[j] \notin {"queued", "dropped"}) => jpc[i] # "queued"

\* of three jobs the first two have been received, in their order, and the
\* third waits in the channel
C19_Witness ==
  /\ Len(conn) >= 3
  /\ jpc[1] \notin {"queued", "dropped"}
  /\ InProgress(2)
  /\ jpc[3] = "queued" /\ queue = <<3>>

\* C20: a call of execute made while a worker is left puts the job in the
\* channel and the accept loop goes on; a call made when every worker has
\* ended puts nothing in the channel and ends the accept loop. The loop has
\* ended only so, after as many jobs failed as the pool had workers, and
\* from then on no connection is accepted and none is answered.
C20_ExecuteNeedsAWorker ==
  /\ [](/\ acceptor = "panicked" =>
             /\ \A w \in Workers : wpc[w] = "dead"
             /\ Cardinality({j \in Jobs : jpc[j] = "panicked"}) = PoolSize
             /\ jpc[Len(conn)] = "dropped"
        /\ \A j \in Jobs :
             jpc[j] = "dropped" =>
               j = Len(conn) /\ acceptor = "panicked" /\ out[j] = <<>>)
  /\ [][/\ conn' # conn =>
             LET j == Len(conn')
             IN  IF \E w \in Workers : wpc[w] # "dead"
                 THEN /\ acceptor' = "accepting"
                      /\ queue' = Append(queue, j)
                      /\ jpc'[j] = "queued"
                 ELSE /\ acceptor' = "panicked"
                      /\ queue' = queue
                      /\ jpc'[j] = "dropped"
        /\ acceptor = "panicked" => (conn' = conn /\ out' = out)
      ]_vars

\* every worker has ended on a job that failed, and the call of execute
\* for the connection that came next has ended the accept loop
C20_Witness ==
  /\ acceptor = "panicked"
  /\ \A w \in Workers : wpc[w] = "dead"
  /\ Len(conn) = PoolSize + 1
  /\ jpc[Len(conn)] = "dropped"

====
